---- MODULE Spec2Model ----
(***************************************************************************)
(* Model of src/abtract/flightplan.py: Plan, FlightPlan and                *)
(* EncodedFlightPlan.  Two state machines share the module:                *)
(*   SpecE : one EncodedFlightPlan, built by add_plan and shifted by       *)
(*           advance / hold / reschedule, ended by depart;                 *)
(*   SpecF : one FlightPlan (the source), mutated by add / reschedule,     *)
(*           and the FlightPlan returned by trim_runway (the copy).        *)
(* numpy arrays and Python lists are sequences; Plan objects live in a     *)
(* heap of references so that copies and aliases are distinguishable.      *)
(* Slot and time arithmetic is on mathematical integers: the values are    *)
(* time-slot indices, far from the int64 / float64 limits of the arrays.   *)
(***************************************************************************)
EXTENDS Integers, Sequences, FiniteSets, TLC

VARIABLES
    facility_ids,   \* EncodedFlightPlan.facility_ids : list
    time_slot_ids,  \* EncodedFlightPlan.time_slot_ids : array
    flight_plan,    \* EncodedFlightPlan.flight_plan : dict facility -> array
    departed,       \* EncodedFlightPlan.departed
    heap,           \* Plan objects: reference -> Plan fields
    plans,          \* FlightPlan.plans of the source: list of references
    copy_plans,     \* plans of the FlightPlan returned by trim_runway
    has_copy,       \* TRUE once trim_runway has returned a FlightPlan
    copy_calls,     \* number of calls made on that FlightPlan
    op,             \* name of the last call
    ret             \* what the last call returned or raised

vars == <<facility_ids, time_slot_ids, flight_plan, departed,
          heap, plans, copy_plans, has_copy, copy_calls, op, ret>>

evars == <<facility_ids, time_slot_ids, flight_plan, departed>>
fvars == <<heap, plans, copy_plans, has_copy, copy_calls>>

None == "None"

-----------------------------------------------------------------------------
(* Bounds of the exploration *)

MaxLen == 5          \* longest flat sequence explored
MaxDrift == 5        \* largest cumulative shift explored, either way

MaxPlans == 3        \* most Plans in one FlightPlan
MaxTimeDrift == 1    \* largest cumulative reschedule explored, either way
MaxCopyCalls == 2    \* most calls explored on one returned FlightPlan

Facilities == {"A", "B"}
ShiftArgs == {-1, 0, 5}

Min2(a, b) == IF a < b THEN a ELSE b

\* The time-slot lists a caller passes to add_plan: ascending runs of slots
\* (what one sector crossing occupies).
TimeSlotInputs == { <<103, 104>>, <<100, 101, 102>> }

-----------------------------------------------------------------------------
(* EncodedFlightPlan: pure parts *)

\* a pairing that stops one position early
Zip_drop_last(fids, tids) ==
    [i \in 1 .. (Min2(Len(fids), Len(tids)) - 1) |-> <<fids[i], tids[i]>>]

\* zip(self.facility_ids, self.time_slot_ids): stops at the shorter one
Zip(fids, tids) ==
    [i \in 1 .. Min2(Len(fids), Len(tids)) |-> <<fids[i], tids[i]>>]

SeqToSet(s) == { s[i] : i \in 1 .. Len(s) }

\* array + scalar, elementwise
Shift(arr, d) == [i \in 1 .. Len(arr) |-> arr[i] + d]

\* [facility_id] * len(time_slot_ids)
Repeat(x, k) == [i \in 1 .. k |-> x]

get_facility_timeslot_id_pairs(s) == Zip(s.facility_ids, s.time_slot_ids)

id_pairs(s) == get_facility_timeslot_id_pairs(s)

ShiftDict(d, n) == [f \in DOMAIN d |-> Shift(d[f], n)]

\* add_plan with the facility appended once instead of once per slot
add_plan_single_facility(s, facility_id, tsi) ==
    [ s EXCEPT
        !.time_slot_ids = s.time_slot_ids \o tsi,
        !.facility_ids = Append(s.facility_ids, facility_id),
        !.flight_plan = [f \in DOMAIN s.flight_plan \cup {facility_id} |->
                            IF f = facility_id THEN tsi ELSE s.flight_plan[f]] ]

add_plan(s, facility_id, tsi) ==
    [ s EXCEPT
        !.time_slot_ids = s.time_slot_ids \o tsi,
        !.facility_ids = s.facility_ids \o Repeat(facility_id, Len(tsi)),
        !.flight_plan = [f \in DOMAIN s.flight_plan \cup {facility_id} |->
                            IF f = facility_id THEN tsi ELSE s.flight_plan[f]] ]

\* advance returning its two sets in the opposite order
advance_swapped(s, num_timeslot) ==
    LET former == SeqToSet(Zip(s.facility_ids, s.time_slot_ids))
        shifted == Shift(s.time_slot_ids, 0 - num_timeslot)
        later == SeqToSet(Zip(s.facility_ids, shifted))
    IN  [ state |-> [ s EXCEPT !.time_slot_ids = shifted,
                               !.flight_plan = ShiftDict(s.flight_plan, 0 - num_timeslot) ],
          ret |-> [ decreasing |-> later \ former, increasing |-> former \ later ] ]

\* advance without the loop over the grouped mapping
advance_flat_only(s, num_timeslot) ==
    LET former == SeqToSet(Zip(s.facility_ids, s.time_slot_ids))
        shifted == Shift(s.time_slot_ids, 0 - num_timeslot)
        later == SeqToSet(Zip(s.facility_ids, shifted))
    IN  [ state |-> [ s EXCEPT !.time_slot_ids = shifted ],
          ret |-> [ decreasing |-> former \ later, increasing |-> later \ former ] ]

\* the state after the shift and the returned pair of sets
advance(s, num_timeslot) ==
    LET former == SeqToSet(Zip(s.facility_ids, s.time_slot_ids))
        shifted == Shift(s.time_slot_ids, 0 - num_timeslot)
        later == SeqToSet(Zip(s.facility_ids, shifted))
    IN  [ state |-> [ s EXCEPT !.time_slot_ids = shifted,
                               !.flight_plan = ShiftDict(s.flight_plan, 0 - num_timeslot) ],
          ret |-> [ decreasing |-> former \ later, increasing |-> later \ former ] ]

\* hold taking the pairs "after" from the array before it is shifted
hold_stale_later(s, num_timeslot) ==
    LET former == SeqToSet(Zip(s.facility_ids, s.time_slot_ids))
        shifted == Shift(s.time_slot_ids, num_timeslot)
        later == SeqToSet(Zip(s.facility_ids, s.time_slot_ids))
    IN  [ state |-> [ s EXCEPT !.time_slot_ids = shifted,
                               !.flight_plan = ShiftDict(s.flight_plan, num_timeslot) ],
          ret |-> [ decreasing |-> former \ later, increasing |-> later \ former ] ]

\* hold returning the two pair sets themselves, not their differences
hold_no_difference(s, num_timeslot) ==
    LET former == SeqToSet(Zip(s.facility_ids, s.time_slot_ids))
        shifted == Shift(s.time_slot_ids, num_timeslot)
        later == SeqToSet(Zip(s.facility_ids, shifted))
    IN  [ state |-> [ s EXCEPT !.time_slot_ids = shifted,
                               !.flight_plan = ShiftDict(s.flight_plan, num_timeslot) ],
          ret |-> [ decreasing |-> former, increasing |-> later ] ]

hold(s, num_timeslot) ==
    LET former == SeqToSet(Zip(s.facility_ids, s.time_slot_ids))
        shifted == Shift(s.time_slot_ids, num_timeslot)
        later == SeqToSet(Zip(s.facility_ids, shifted))
    IN  [ state |-> [ s EXCEPT !.time_slot_ids = shifted,
                               !.flight_plan = ShiftDict(s.flight_plan, num_timeslot) ],
          ret |-> [ decreasing |-> former \ later, increasing |-> later \ former ] ]

depart(s) ==
    LET t == [ s EXCEPT !.departed = TRUE ]
    IN  [ state |-> t, ret |-> id_pairs(t) ]

\* reschedule with the sense of delay inverted
reschedule_inverted(s, num_timeslot, delay) ==
    IF num_timeslot = 0 THEN s
    ELSE IF delay THEN advance(s, num_timeslot).state
    ELSE hold(s, num_timeslot).state

reschedule(s, num_timeslot, delay) ==
    IF num_timeslot = 0 THEN s
    ELSE IF delay THEN hold(s, num_timeslot).state
    ELSE advance(s, num_timeslot).state

-----------------------------------------------------------------------------
(* EncodedFlightPlan: state machine *)

Enc == [ facility_ids |-> facility_ids, time_slot_ids |-> time_slot_ids,
         flight_plan |-> flight_plan, departed |-> departed ]

SetEnc(s) ==
    /\ facility_ids' = s.facility_ids
    /\ time_slot_ids' = s.time_slot_ids
    /\ flight_plan' = s.flight_plan
    /\ departed' = s.departed

\* exploration window: a shift by d is explored while every slot of the flat
\* and grouped arrays stays within MaxDrift of the slots add_plan was given
Window == (100 - MaxDrift) .. (104 + MaxDrift)

InWindow(d) ==
    /\ \A i \in 1 .. Len(time_slot_ids) : time_slot_ids[i] + d \in Window
    /\ \A f \in DOMAIN flight_plan : \A i \in 1 .. Len(flight_plan[f]) :
          flight_plan[f][i] + d \in Window

\* add_plan is explored while the slots the flight already holds lie in the
\* range the lists handed to add_plan come from
InAddRange ==
    /\ \A i \in 1 .. Len(time_slot_ids) : time_slot_ids[i] \in 100 .. 104
    /\ \A f \in DOMAIN flight_plan : \A i \in 1 .. Len(flight_plan[f]) :
          flight_plan[f][i] \in 100 .. 104

EInit ==
    /\ facility_ids = << >>
    /\ time_slot_ids = << >>
    /\ flight_plan = << >>
    /\ departed = FALSE

AddPlan(f, tsi) ==
    /\ op' = "add_plan"
    /\ Len(time_slot_ids) + Len(tsi) <= MaxLen
    /\ InAddRange
    /\ LET t == add_plan(Enc, f, tsi)
       IN  SetEnc(t)
    /\ ret' = None
    /\ UNCHANGED fvars

Advance(n) ==
    /\ op' = "advance"
    /\ InWindow(0 - n)
    /\ LET r == advance(Enc, n)
       IN  SetEnc(r.state) /\ ret' = r.ret
    /\ UNCHANGED fvars

Hold(n) ==
    /\ op' = "hold"
    /\ InWindow(n)
    /\ LET r == hold(Enc, n)
       IN  SetEnc(r.state) /\ ret' = r.ret
    /\ UNCHANGED fvars

Reschedule(n, delay) ==
    /\ op' = "reschedule"
    /\ InWindow(IF delay THEN n ELSE 0 - n)
    /\ LET t == reschedule(Enc, n, delay)
       IN  SetEnc(t)
    /\ ret' = None
    /\ UNCHANGED fvars

Depart ==
    /\ op' = "depart"
    /\ LET r == depart(Enc)
       IN  SetEnc(r.state) /\ ret' = r.ret
    /\ UNCHANGED fvars

\* the FlightPlan variables, unused by this machine
FIdle ==
    /\ heap = << >>
    /\ plans = << >>
    /\ copy_plans = << >>
    /\ has_copy = FALSE
    /\ copy_calls = 0

InitE == EInit /\ FIdle /\ op = "init" /\ ret = None

NextE ==
    \/ \E f \in Facilities, tsi \in TimeSlotInputs : AddPlan(f, tsi)
    \/ \E n \in ShiftArgs : Advance(n)
    \/ \E n \in ShiftArgs : Hold(n)
    \/ \E n \in ShiftArgs, delay \in BOOLEAN : Reschedule(n, delay)
    \/ Depart

SpecE == InitE /\ [][NextE]_vars

-----------------------------------------------------------------------------
(* Plan and FlightPlan: inputs *)

\* The Plan objects a caller builds and hands to add.  Only the fields an
\* operation of FlightPlan reads or writes are kept: call_sign, time_entry,
\* time_exit, runway_use.
MkPlan(cs, te, rw) ==
    [ call_sign |-> cs, time_entry |-> te, time_exit |-> te + 1, runway_use |-> rw ]

PlanInputs ==
    { MkPlan("F1", 0, "departure"), MkPlan("F1", 0, None),
      MkPlan("F1", 1, "arrival"), MkPlan("F2", 0, None) }

\* The Plans handed to add on a FlightPlan that trim_runway returned
CopyInputs == { MkPlan("F1", 0, None), MkPlan("F2", 0, None) }

RescheduleArgs == {-1, 1}

TimeWindow == (0 - MaxTimeDrift) .. (2 + MaxTimeDrift)

-----------------------------------------------------------------------------
(* Plan and FlightPlan: pure parts over the heap of Plan objects *)

\* the reference a newly built object gets: the smallest one not in use
NewRef(h) ==
    CHOOSE r \in 1 .. (Cardinality(DOMAIN h) + 1) :
        /\ r \notin DOMAIN h
        /\ \A q \in 1 .. (r - 1) : q \in DOMAIN h

Extend(h, r, v) == [x \in DOMAIN h \cup {r} |-> IF x = r THEN v ELSE h[x]]

\* objects no list refers to any more are reclaimed
Collect(h, lists) ==
    [x \in { r \in DOMAIN h : \E l \in lists : r \in SeqToSet(l) } |-> h[x]]

\* Python truthiness of runway_use
Truthy(v) == v # None /\ v # ""

\* Plan.reschedule with the shifted times kept from going below zero
Plan_reschedule_clamped(h, r, num_timeslot) ==
    [ h EXCEPT
        ![r].time_entry = IF @ + num_timeslot < 0 THEN 0 ELSE @ + num_timeslot,
        ![r].time_exit = IF @ + num_timeslot < 0 THEN 0 ELSE @ + num_timeslot ]

Plan_reschedule(h, r, num_timeslot) ==
    [ h EXCEPT ![r].time_entry = @ + num_timeslot,
               ![r].time_exit = @ + num_timeslot ]

RECURSIVE FlightPlan_reschedule(_, _, _)
\* for plan in self.plans: plan.reschedule(num_timeslot)
FlightPlan_reschedule(h, ps, num_timeslot) ==
    IF ps = << >> THEN h
    ELSE FlightPlan_reschedule(Plan_reschedule(h, Head(ps), num_timeslot),
                               Tail(ps), num_timeslot)

RECURSIVE InsertStable(_, _, _)
\* r goes behind every element whose time_entry is not larger
InsertStable(h, srt, r) ==
    IF srt = << >> THEN <<r>>
    ELSE IF h[Head(srt)].time_entry <= h[r].time_entry
         THEN <<Head(srt)>> \o InsertStable(h, Tail(srt), r)
         ELSE <<r>> \o srt

RECURSIVE SortFrom(_, _, _)
SortFrom(h, ps, acc) ==
    IF ps = << >> THEN acc
    ELSE SortFrom(h, Tail(ps), InsertStable(h, acc, Head(ps)))

\* sorted(self.plans, key=lambda x: x.time_entry): a stable sort
FlightPlan_sorted(h, ps) == SortFrom(h, ps, << >>)

\* add that appends before it compares the call signs
FlightPlan_add_append_first(h, ps, plan) ==
    LET r == NewRef(h)
        h2 == Extend(h, r, plan)
    IN  IF ps # << >> /\ plan.call_sign # h[ps[1]].call_sign
        THEN [ heap |-> h2, plans |-> Append(ps, r), ret |-> "ValueError" ]
        ELSE [ heap |-> h2, plans |-> FlightPlan_sorted(h2, Append(ps, r)), ret |-> None ]

\* add without the sort
FlightPlan_add_unsorted(h, ps, plan) ==
    IF ps # << >> /\ plan.call_sign # h[ps[1]].call_sign
    THEN [ heap |-> h, plans |-> ps, ret |-> "ValueError" ]
    ELSE LET r == NewRef(h)
         IN  [ heap |-> Extend(h, r, plan), plans |-> Append(ps, r), ret |-> None ]

FlightPlan_add(h, ps, plan) ==
    IF ps # << >> /\ plan.call_sign # h[ps[1]].call_sign
    THEN [ heap |-> h, plans |-> ps, ret |-> "ValueError" ]
    ELSE LET r == NewRef(h)
             h2 == Extend(h, r, plan)
         IN  [ heap |-> h2, plans |-> FlightPlan_sorted(h2, Append(ps, r)), ret |-> None ]

RECURSIVE CopyPlans(_, _, _, _)
CopyPlans(h, ps, memo, out) ==
    IF ps = << >> THEN [ heap |-> h, plans |-> out ]
    ELSE LET r == Head(ps)
         IN  IF r \in DOMAIN memo
             THEN CopyPlans(h, Tail(ps), memo, Append(out, memo[r]))
             ELSE LET q == NewRef(h)
                  IN  CopyPlans(Extend(h, q, h[r]), Tail(ps),
                                Extend(memo, r, q), Append(out, q))

\* a copy that has its own list but shares the Plan objects
deepcopy_shared_plans(h, ps) == [ heap |-> h, plans |-> ps ]

\* deepcopy(self): a new list of new Plan objects with the same field values
deepcopy(h, ps) == CopyPlans(h, ps, << >>, << >>)

Last(l) == l[Len(l)]
Front(l) == SubSeq(l, 1, Len(l) - 1)

\* the heap and the plans of the returned copy, or the IndexError that
\* plans[0] or plans[-1] raises on an empty list
trim_runway(h, ps) ==
    LET c == deepcopy(h, ps)
    IN  IF c.plans = << >> THEN [ heap |-> h, plans |-> << >>, ret |-> "IndexError" ]
        ELSE LET p1 == IF Truthy(c.heap[c.plans[1]].runway_use)
                       THEN Tail(c.plans) ELSE c.plans
             IN  IF p1 = << >> THEN [ heap |-> h, plans |-> << >>, ret |-> "IndexError" ]
                 ELSE LET p2 == IF Truthy(c.heap[Last(p1)].runway_use)
                                THEN Front(p1) ELSE p1
                      IN  [ heap |-> c.heap, plans |-> p2, ret |-> "FlightPlan" ]

-----------------------------------------------------------------------------
(* FlightPlan: state machine.  plans is the FlightPlan under study (the     *)
(* source); copy_plans is the FlightPlan its trim_runway last returned.     *)
(* SpecF drives one FlightPlan by add and reschedule.  SpecT follows        *)
(* DataExtractor.extract_from_data: a FlightPlan is populated by add and    *)
(* trimmed by trim_runway, and the FlightPlan returned is then driven by    *)
(* add and reschedule while the source can still be added to.               *)

InTimeWindow(ps, d) ==
    \A i \in 1 .. Len(ps) :
        /\ heap[ps[i]].time_entry + d \in TimeWindow
        /\ heap[ps[i]].time_exit + d \in TimeWindow

FInit ==
    /\ heap = << >>
    /\ plans = << >>
    /\ copy_plans = << >>
    /\ has_copy = FALSE
    /\ copy_calls = 0

FAdd(p) ==
    /\ op' = "add"
    /\ Len(plans) < MaxPlans
    /\ LET r == FlightPlan_add(heap, plans, p)
       IN  /\ plans' = r.plans
           /\ heap' = Collect(r.heap, {r.plans, copy_plans})
           /\ ret' = r.ret
    /\ UNCHANGED <<copy_plans, has_copy, copy_calls>>
    /\ UNCHANGED evars

FReschedule(n) ==
    /\ op' = "reschedule"
    /\ InTimeWindow(plans, n)
    /\ heap' = FlightPlan_reschedule(heap, plans, n)
    /\ ret' = None
    /\ UNCHANGED <<plans, copy_plans, has_copy, copy_calls>>
    /\ UNCHANGED evars

TrimRunway ==
    /\ op' = "trim_runway"
    \* the FlightPlan returned by an earlier call is dropped by the caller
    /\ LET r == trim_runway(Collect(heap, {plans}), plans)
       IN  /\ ret' = r.ret
           /\ IF r.ret = "FlightPlan"
              THEN /\ copy_plans' = r.plans
                   /\ has_copy' = TRUE
                   /\ copy_calls' = 0
                   /\ heap' = Collect(r.heap, {plans, r.plans})
              ELSE /\ copy_plans' = << >>
                   /\ has_copy' = FALSE
                   /\ copy_calls' = 0
                   /\ heap' = r.heap
    /\ UNCHANGED plans
    /\ UNCHANGED evars

CopyAdd(p) ==
    /\ op' = "copy.add"
    /\ has_copy
    /\ copy_calls < MaxCopyCalls
    /\ Len(copy_plans) < MaxPlans
    /\ LET r == FlightPlan_add(heap, copy_plans, p)
       IN  /\ copy_plans' = r.plans
           /\ heap' = Collect(r.heap, {plans, r.plans})
           /\ ret' = r.ret
    /\ copy_calls' = copy_calls + 1
    /\ UNCHANGED <<plans, has_copy>>
    /\ UNCHANGED evars

CopyReschedule(n) ==
    /\ op' = "copy.reschedule"
    /\ has_copy
    /\ copy_calls < MaxCopyCalls
    /\ InTimeWindow(copy_plans, n)
    /\ heap' = FlightPlan_reschedule(heap, copy_plans, n)
    /\ ret' = None
    /\ copy_calls' = copy_calls + 1
    /\ UNCHANGED <<plans, copy_plans, has_copy>>
    /\ UNCHANGED evars

InitF == FInit /\ EInit /\ op = "init" /\ ret = None

NextF ==
    \/ \E p \in PlanInputs : FAdd(p)
    \/ \E n \in RescheduleArgs : FReschedule(n)

SpecF == InitF /\ [][NextF]_vars

NextT ==
    \/ \E p \in PlanInputs : FAdd(p)
    \/ TrimRunway
    \/ \E p \in CopyInputs : CopyAdd(p)
    \/ \E n \in RescheduleArgs : CopyReschedule(n)

SpecT == InitF /\ [][NextT]_vars

-----------------------------------------------------------------------------
(* Properties of EncodedFlightPlan *)

RECURSIVE SlotsOfFacility(_, _, _)
\* the values of tids at the positions where fids is f, in order
SlotsOfFacility(fids, tids, f) ==
    IF fids = << >> \/ tids = << >> THEN << >>
    ELSE (IF Head(fids) = f THEN <<Head(tids)>> ELSE << >>)
            \o SlotsOfFacility(Tail(fids), Tail(tids), f)

PairsNow == { <<facility_ids[i], time_slot_ids[i]>> : i \in 1 .. Len(facility_ids) }

\* C1: in every reachable state, for each facility f of the grouped mapping,
\* flight_plan[f] is exactly the sequence of the values of time_slot_ids at
\* the positions where facility_ids is f.
C1_GroupedMatchesFlat ==
    \A f \in DOMAIN flight_plan :
        flight_plan[f] = SlotsOfFacility(facility_ids, time_slot_ids, f)

\* C2: in every reachable state facility_ids and time_slot_ids have the
\* same length.
C2_EqualLength == Len(facility_ids) = Len(time_slot_ids)

C2_Witness ==
    /\ op = "hold"
    /\ Len(facility_ids) = 5
    /\ DOMAIN flight_plan = {"A", "B"}

ExampleBefore ==
    /\ facility_ids = <<"A", "A", "A", "B", "B">>
    /\ time_slot_ids = <<100, 101, 102, 103, 104>>
    /\ flight_plan = [A |-> <<100, 101, 102>>, B |-> <<103, 104>>]

ExampleAfter ==
    /\ facility_ids = <<"A", "A", "A", "B", "B">>
    /\ time_slot_ids = <<105, 106, 107, 108, 109>>
    /\ flight_plan = [A |-> <<105, 106, 107>>, B |-> <<108, 109>>]
    /\ ret = [ decreasing |-> { <<"A", 100>>, <<"A", 101>>, <<"A", 102>>,
                                <<"B", 103>>, <<"B", 104>> },
               increasing |-> { <<"A", 105>>, <<"A", 106>>, <<"A", 107>>,
                                <<"B", 108>>, <<"B", 109>> } ]

\* what a shift by d (d = n for hold, d = -n for advance) must do
ShiftedBy(d) ==
    /\ facility_ids' = facility_ids
    /\ Len(time_slot_ids') = Len(time_slot_ids)
    /\ \A i \in 1 .. Len(time_slot_ids) : time_slot_ids'[i] = time_slot_ids[i] + d
    /\ DOMAIN flight_plan' = DOMAIN flight_plan
    /\ \A f \in DOMAIN flight_plan :
          /\ Len(flight_plan'[f]) = Len(flight_plan[f])
          /\ \A i \in 1 .. Len(flight_plan[f]) : flight_plan'[f][i] = flight_plan[f][i] + d
    /\ ret'.decreasing = { p \in PairsNow : p \notin PairsNow' }
    /\ ret'.increasing = { p \in PairsNow' : p \notin PairsNow }

\* C3: hold(n) adds n, and advance(n) subtracts n, to every element of the
\* flat time_slot_ids and of every grouped sequence, and returns (vacated,
\* occupied) = (pairs present before and absent after, pairs present after
\* and absent before); the scenario A:[100,101,102], B:[103,104], hold(5)
\* gives the flat, grouped, vacated and occupied values of the example.
C3_ShiftEffect ==
    [][ /\ \A n \in ShiftArgs : Hold(n) => ShiftedBy(n)
        /\ \A n \in ShiftArgs : Advance(n) => ShiftedBy(0 - n)
        /\ (ExampleBefore /\ Hold(5)) => ExampleAfter' ]_vars

C3_Witness == op = "hold" /\ ExampleAfter

\* C4 as stated: from one state s and for one n, the vacated set of
\* advance(n) equals the occupied set of hold(n).
C4_VacatedEqualsOccupied ==
    \A n \in ShiftArgs :
        advance(Enc, n).ret.decreasing = hold(Enc, n).ret.increasing

BackBy(pairs, n) == { <<p[1], p[2] - n>> : p \in pairs }

\* C4 amended: from one state s and for one n, the vacated set of advance(n)
\* equals the occupied set of hold(n) with every slot moved back by n.
C4_VacatedEqualsOccupiedMovedBack ==
    [][ /\ \A n \in ShiftArgs :
              Hold(n) => advance(Enc, n).ret.decreasing = BackBy(ret'.increasing, n)
        /\ \A n \in ShiftArgs :
              Advance(n) => ret'.decreasing = BackBy(hold(Enc, n).ret.increasing, n) ]_vars

C4_Witness ==
    /\ op = "advance"
    /\ Cardinality(ret.decreasing) = 1
    /\ Cardinality(PairsNow) = 5

\* C5: hold(n) followed by advance(n) leaves the flat time_slot_ids and
\* every grouped sequence exactly as they were before the two calls.
C5_HoldThenAdvanceRestores ==
    [][ \A n \in ShiftArgs :
            Hold(n) =>
                /\ advance(Enc', n).state.time_slot_ids = time_slot_ids
                /\ advance(Enc', n).state.flight_plan = flight_plan
                /\ advance(Enc', n).state.facility_ids = facility_ids ]_vars

C5_Witness ==
    /\ op = "hold"
    /\ Len(time_slot_ids) = 5
    /\ Cardinality(ret.increasing) = 5
    /\ Cardinality(DOMAIN flight_plan) = 2

-----------------------------------------------------------------------------
(* Properties of FlightPlan *)

\* the Plans of a list, by value
View(h, ps) == [i \in 1 .. Len(ps) |-> h[ps[i]]]

SourceView == View(heap, plans)
CopyView == View(heap, copy_plans)

\* C6: add(plan) on a non-empty FlightPlan whose identifier (the call sign
\* of its first Plan) differs from plan's raises the validation error and
\* leaves the plan sequence, its length, contents and order, unchanged.
C6_MismatchRejected ==
    [][ \A p \in PlanInputs :
            (FAdd(p) /\ plans # << >> /\ p.call_sign # heap[plans[1]].call_sign)
                => /\ ret' = "ValueError"
                   /\ plans' = plans
                   /\ SourceView' = SourceView ]_vars

C6_Witness ==
    /\ op = "add"
    /\ ret = "ValueError"
    /\ Len(plans) = 2

\* C7: after every add, and after any further add and reschedule calls, the
\* plan sequence is in non-decreasing order of entry time and all its Plans
\* have one call sign.
C7_SortedOneFlight ==
    /\ \A i \in 1 .. (Len(plans) - 1) :
          heap[plans[i]].time_entry <= heap[plans[i + 1]].time_entry
    /\ \A i, j \in 1 .. Len(plans) :
          heap[plans[i]].call_sign = heap[plans[j]].call_sign

\* the Plan added last (reference 3) was sorted to the front
C7_Witness ==
    /\ op = "add"
    /\ ret = None
    /\ Len(plans) = 3
    /\ plans[1] = 3
    /\ heap[plans[1]].time_entry < heap[plans[3]].time_entry

\* C8: reschedule(n) followed by reschedule(-n) gives every Plan the entry
\* and exit time it had before, and the order of the sequence is unchanged.
C8_RescheduleRoundTrip ==
    [][ \A n \in RescheduleArgs :
            FReschedule(n) =>
                /\ plans' = plans
                /\ View(FlightPlan_reschedule(heap', plans', 0 - n), plans') = SourceView ]_vars

C8_Witness ==
    /\ op = "reschedule"
    /\ Len(plans) = 3
    /\ heap[plans[1]].time_entry < 0
    /\ heap[plans[1]].time_entry < heap[plans[3]].time_entry

\* the sequence v without its first Plan if that one has a runway role and
\* without its last Plan if that one has a runway role
ExpectedTrim(v) ==
    LET lo == IF Truthy(v[1].runway_use) THEN 2 ELSE 1
        hi == IF Truthy(v[Len(v)].runway_use) THEN Len(v) - 1 ELSE Len(v)
    IN  IF lo > hi THEN << >> ELSE SubSeq(v, lo, hi)

\* C9: for every non-empty FlightPlan, trim_runway returns a FlightPlan
\* whose sequence is the source's with the first Plan removed iff it has a
\* runway role and the last Plan removed iff it has a runway role, the other
\* Plans kept in order.
C9_TrimRemovesRunwayEnds ==
    (op = "trim_runway" /\ plans # << >>)
        => (ret = "FlightPlan" /\ has_copy /\ CopyView = ExpectedTrim(SourceView))

\* C10: trim_runway, whatever it returns, and every later add or reschedule
\* on the FlightPlan it returned, leave the source's plan sequence and every
\* Plan in it as they were.
C10_SourceUntouched ==
    [][ op' \in {"trim_runway", "copy.add", "copy.reschedule"}
            => (plans' = plans /\ SourceView' = SourceView) ]_vars

C10_Witness ==
    /\ op = "copy.reschedule"
    /\ Len(plans) = 3
    /\ Len(copy_plans) = 2
    /\ copy_calls = 2
    /\ CopyView[1].time_entry # SourceView[2].time_entry

-----------------------------------------------------------------------------
(* Further properties of EncodedFlightPlan *)

\* the flat and grouped arrays moved by d, nothing else changed
MovedBy(d) ==
    /\ facility_ids' = facility_ids
    /\ departed' = departed
    /\ time_slot_ids' = [i \in 1 .. Len(time_slot_ids) |-> time_slot_ids[i] + d]
    /\ flight_plan' = [f \in DOMAIN flight_plan |->
                          [i \in 1 .. Len(flight_plan[f]) |-> flight_plan[f][i] + d]]

\* C11: reschedule(n, delay) leaves the whole state unchanged when n is
\* zero; otherwise its effect on the state is that of hold(n) if delay is
\* true and that of advance(n) if delay is false.
C11_RescheduleDispatch ==
    [][ \A n \in ShiftArgs, delay \in BOOLEAN :
            Reschedule(n, delay) =>
                /\ n = 0 => UNCHANGED evars
                /\ (n # 0 /\ delay) => (Enc' = hold(Enc, n).state /\ MovedBy(n))
                /\ (n # 0 /\ ~delay) => (Enc' = advance(Enc, n).state /\ MovedBy(0 - n)) ]_vars

C11_Witness ==
    /\ op = "reschedule"
    /\ Len(time_slot_ids) = 5
    /\ time_slot_ids[1] = 95
    /\ flight_plan["A"][1] = 95

\* the list of (facility_ids[i], time_slot_ids[i])
PairList ==
    [i \in 1 .. Len(facility_ids) |-> <<facility_ids[i], time_slot_ids[i]>>]

\* C12: depart sets departed, leaves the flat and grouped sequences
\* unchanged and returns the (facility, slot) pairs of the current state;
\* id_pairs read after any sequence of calls is that same pairing of the
\* current flat sequences.
C12_DepartReturnsCurrentPairs ==
    [][ /\ Depart =>
              /\ departed'
              /\ facility_ids' = facility_ids
              /\ time_slot_ids' = time_slot_ids
              /\ flight_plan' = flight_plan
              /\ ret' = PairList
        /\ id_pairs(Enc') = PairList' ]_vars

\* depart after a hold(5): the pairs returned are the shifted ones
C12_Witness ==
    /\ op = "depart"
    /\ departed
    /\ Len(ret) = 5
    /\ ret[1] = <<"A", 105>>
    /\ ret[5] = <<"B", 109>>

\* C13: the vacated and occupied sets returned by advance(n) or hold(n)
\* are disjoint and of equal size, so the flight occupies as many distinct
\* (facility, slot) cells after the shift as before.
C13_DeltaSetsBalanced ==
    [][ op' \in {"advance", "hold"} =>
            /\ ret'.decreasing \cap ret'.increasing = {}
            /\ Cardinality(ret'.decreasing) = Cardinality(ret'.increasing)
            /\ Cardinality(PairsNow') = Cardinality(PairsNow) ]_vars

\* a hold whose new cells overlap the old ones, on a flight whose flat
\* sequence repeats a cell
C13_Witness ==
    /\ op = "hold"
    /\ ret.decreasing # {}
    /\ Cardinality(ret.decreasing) < Cardinality(PairsNow)
    /\ Cardinality(PairsNow) < Len(facility_ids)

====
